---- MODULE Spec2Model ----
(***************************************************************************)
(* nanopb_json: the descriptor-driven JSON encoder (src/src/pbjson_encode.c)*)
(* and recursive-descent decoder (src/src/pbjson_decode.c).                 *)
(*                                                                         *)
(* Texts and output buffers are sequences / arrays of one-character        *)
(* strings, NUL being the string "NUL".  Message images are arrays of      *)
(* bytes 0..255 indexed from offset 0; multi-byte integers are stored      *)
(* little-endian in two's complement.  The floating point and the 64-bit   *)
(* integer types are left out of the model.                                *)
(***************************************************************************)
EXTENDS Integers, Sequences, FiniteSets, TLC

VARIABLES pc, fields, src_struct, len, buf, ret, json, plain, dst, derr

vars == <<pc, fields, src_struct, len, buf, ret, json, plain, dst, derr>>

\* largest buffer capacity handed to pbjson_encode
MaxLen == 40

\* bytes of caller memory modelled behind the output buffer
Slack == 8

(***************************************************************************)
(* Characters                                                              *)
(***************************************************************************)
NUL == "NUL"

\* content of a buffer byte the encoder has not written
UNSET == "~"

Q == "\""

Digits == <<"0", "1", "2", "3", "4", "5", "6", "7", "8", "9">>

Letters == <<"a", "b", "c", "d", "e", "f", "g", "h", "i", "j", "k", "l", "m",
             "n", "o", "p", "q", "r", "s", "t", "u", "v", "w", "x", "y", "z">>

IndexOf(seq, c) == CHOOSE i \in 1..Len(seq) : seq[i] = c

IsDigit(c) == \E i \in 1..Len(Digits) : Digits[i] = c

IsLetter(c) == \E i \in 1..Len(Letters) : Letters[i] = c

\* the byte a character of a string value is stored as (ASCII)
Ord(c) ==
    IF c = NUL THEN 0
    ELSE IF IsDigit(c) THEN 47 + IndexOf(Digits, c)
    ELSE IF IsLetter(c) THEN 96 + IndexOf(Letters, c)
    ELSE IF c = " " THEN 32
    ELSE IF c = Q THEN 34
    ELSE IF c = "," THEN 44
    ELSE IF c = "-" THEN 45
    ELSE IF c = ":" THEN 58
    ELSE IF c = "[" THEN 91
    ELSE IF c = "]" THEN 93
    ELSE IF c = "{" THEN 123
    ELSE IF c = "}" THEN 125
    ELSE 63

\* the character a byte of a string value is printed as
Chr(b) ==
    IF b = 0 THEN NUL
    ELSE IF b \in 48..57 THEN Digits[b - 47]
    ELSE IF b \in 97..122 THEN Letters[b - 96]
    ELSE IF b = 32 THEN " "
    ELSE IF b = 34 THEN Q
    ELSE IF b = 44 THEN ","
    ELSE IF b = 45 THEN "-"
    ELSE IF b = 58 THEN ":"
    ELSE IF b = 91 THEN "["
    ELSE IF b = 93 THEN "]"
    ELSE IF b = 123 THEN "{"
    ELSE IF b = 125 THEN "}"
    ELSE "?"

(***************************************************************************)
(* Message images: byte arrays addressed by offset                         *)
(***************************************************************************)
ZeroImage(n) == [i \in 0..(n - 1) |-> 0]

RdByte(mem, off) == IF off \in DOMAIN mem THEN mem[off] ELSE 0

WrByte(mem, off, b) == IF off \in DOMAIN mem THEN [mem EXCEPT ![off] = b] ELSE mem

RECURSIVE Pow256(_)
Pow256(i) == IF i = 0 THEN 1 ELSE 256 * Pow256(i - 1)

\* byte i of the two's complement image of v
ByteOf(v, i) == (v \div Pow256(i)) % 256

\* store the low w bytes of v at off (a C store through an intN_t / uintN_t pointer)
WrInt(mem, off, w, v) ==
    [i \in DOMAIN mem |->
        IF i >= off /\ i < off + w THEN ByteOf(v, i - off) ELSE mem[i]]

RECURSIVE RdUnsigned(_, _, _)
RdUnsigned(mem, off, w) ==
    IF w = 0 THEN 0
    ELSE RdByte(mem, off) + 256 * RdUnsigned(mem, off + 1, w - 1)

\* load through an intN_t pointer: the top byte carries the sign
RdSigned(mem, off, w) ==
    LET top == RdByte(mem, off + w - 1)
        stop == IF top >= 128 THEN top - 256 ELSE top
    IN  RdUnsigned(mem, off, w - 1) + Pow256(w - 1) * stop

(***************************************************************************)
(* Descriptors (include/pb/json.h)                                         *)
(***************************************************************************)
pbjson_type_enum == {"BOOL", "ENUM", "UENUM", "INT32", "UINT32", "STRING", "MESSAGE"}

pbjson_option_enum == {"SINGULAR", "REPEATED", "OPTIONAL"}

NULL == "NULL"

pbjson_iter_t(name, submsg, item_size, data_offset, count_offset, option, data_type) ==
    [name |-> name, submsg |-> submsg, item_size |-> item_size,
     data_offset |-> data_offset, count_offset |-> count_offset,
     option |-> option, data_type |-> data_type]

\* PBJSON_GEN_OPTION_SINGULAR / PBJSON_GEN_OPTION_REQUIRED: auxiliary offset 0
PBJSON_GEN_SINGULAR(name, submsg, item_size, data_offset, data_type) ==
    pbjson_iter_t(name, submsg, item_size, data_offset, 0, "SINGULAR", data_type)

\* PBJSON_GEN_OPTION_OPTIONAL: auxiliary offset of has_<prop>
PBJSON_GEN_OPTIONAL(name, submsg, item_size, data_offset, has_offset, data_type) ==
    pbjson_iter_t(name, submsg, item_size, data_offset, has_offset, "OPTIONAL", data_type)

\* PBJSON_GEN_OPTION_REPEATED: auxiliary offset of <prop>_count
PBJSON_GEN_REPEATED(name, submsg, item_size, data_offset, count_offset, data_type) ==
    pbjson_iter_t(name, submsg, item_size, data_offset, count_offset, "REPEATED", data_type)

(* The message types of the model, laid out as nanopb lays out its structs:  *)
(*   Empty   {}                                                              *)
(*   Known   { bool known; }                                                 *)
(*   Leaf    { int32_t y; bool has_b; bool b; }                              *)
(*   OptFirst{ bool has_a; int32_t a; int8_t e; char s[3]; }                 *)
(*   Rep     { uint32_t array_count; int32_t array[2]; }                     *)
(*   RepMsg  { uint32_t x_count; Leaf x[2]; }                                *)
(*   Holder  { int32_t n; Leaf z; bool has_x; Leaf x; }                      *)
(*   Mixed   { bool has_a; int32_t a; Leaf z; }                              *)
(*   Outer   { bool has_x; Leaf x; bool has_o; OptFirst o; }                 *)
FieldInfo ==
    [Empty |-> << >>,
     Known |-> << PBJSON_GEN_SINGULAR(<<"k","n","o","w","n">>, NULL, 1, 0, "BOOL") >>,
     Leaf |-> << PBJSON_GEN_SINGULAR(<<"y">>, NULL, 4, 0, "INT32"),
                 PBJSON_GEN_OPTIONAL(<<"b">>, NULL, 1, 5, 4, "BOOL") >>,
     OptFirst |-> << PBJSON_GEN_OPTIONAL(<<"a">>, NULL, 4, 4, 0, "INT32"),
                     PBJSON_GEN_SINGULAR(<<"e">>, NULL, 1, 8, "ENUM"),
                     PBJSON_GEN_SINGULAR(<<"s">>, NULL, 3, 9, "STRING") >>,
     Rep |-> << PBJSON_GEN_REPEATED(<<"a","r","r","a","y">>, NULL, 4, 4, 0, "INT32") >>,
     RepMsg |-> << PBJSON_GEN_REPEATED(<<"x">>, "Leaf", 8, 4, 0, "MESSAGE") >>,
     Holder |-> << PBJSON_GEN_SINGULAR(<<"n">>, NULL, 4, 0, "INT32"),
                   PBJSON_GEN_SINGULAR(<<"z">>, "Leaf", 8, 4, "MESSAGE"),
                   PBJSON_GEN_OPTIONAL(<<"x">>, "Leaf", 8, 16, 12, "MESSAGE") >>,
     Mixed |-> << PBJSON_GEN_OPTIONAL(<<"a">>, NULL, 4, 4, 0, "INT32"),
                  PBJSON_GEN_SINGULAR(<<"z">>, "Leaf", 8, 8, "MESSAGE") >>,
     Outer |-> << PBJSON_GEN_OPTIONAL(<<"x">>, "Leaf", 8, 4, 0, "MESSAGE"),
                  PBJSON_GEN_OPTIONAL(<<"o">>, "OptFirst", 12, 16, 12, "MESSAGE") >>]

\* sizeof the struct behind each descriptor
StructSize ==
    [Empty |-> 1, Known |-> 1, Leaf |-> 8, OptFirst |-> 12, Rep |-> 12,
     RepMsg |-> 20, Holder |-> 24, Mixed |-> 16, Outer |-> 28]

MsgNames == DOMAIN FieldInfo

\* PBJSON_BIND: the pbjson_msgdesc_t of a message type
pbjson_msgdesc_t(m) == [iter |-> FieldInfo[m], num_field |-> Len(FieldInfo[m])]

(***************************************************************************)
(* Encoder (src/src/pbjson_encode.c)                                       *)
(*                                                                         *)
(* A stream is the pbjson_ostream_t of the source; its pointer s is kept   *)
(* as an index into mem, the caller's memory: the len bytes of the output  *)
(* buffer followed by Slack bytes that belong to somebody else.            *)
(***************************************************************************)
Poke(mem, i, c) == IF i \in DOMAIN mem THEN [mem EXCEPT ![i] = c] ELSE mem

\* statement sequencing: the result v of a call is handed to the code F after it
Then(v, F(_)) == F(v)

\* stream->bytes_written += n; stream->s += n, the stream memory being mem
Advance(stream, mem, n) ==
    [stream EXCEPT !.mem = mem, !.bytes_written = stream.bytes_written + n,
                   !.s = stream.s + n]

\* decimal text of a non-negative integer
RECURSIVE DecimalText(_)
DecimalText(n) ==
    IF n < 10 THEN << Digits[n + 1] >>
    ELSE Append(DecimalText(n \div 10), Digits[(n % 10) + 1])

\* what printf's %d / %u conversions print
FormatInt(v) == IF v < 0 THEN <<"-">> \o DecimalText(-v) ELSE DecimalText(v)

\* C snprintf(mem + s, size, ...) of an already formatted text: stores at most
\* size - 1 characters and a NUL, and returns the length of the whole text
snprintf(mem, s, size, text) ==
    LET n == IF Len(text) < size - 1 THEN Len(text) ELSE size - 1
    IN  [mem |-> IF size <= 0 THEN mem
                 ELSE [i \in DOMAIN mem |->
                          IF i >= s /\ i < s + n THEN text[i - s + 1]
                          ELSE IF i = s + n THEN NUL
                          ELSE mem[i]],
         len |-> Len(text)]

\* strcopy(dst, src): copy up to, and without, the terminator
strcopy(mem, d, text) ==
    [i \in DOMAIN mem |->
        IF i >= d /\ i < d + Len(text) THEN text[i - d + 1] ELSE mem[i]]

\* the C string that starts at an offset of a message image (strlen's view)
RECURSIVE CString(_, _)
CString(img, off) ==
    IF off \notin DOMAIN img \/ img[off] = 0 THEN << >>
    ELSE << Chr(img[off]) >> \o CString(img, off + 1)

\* pbjson_ostream_put_char that reports success when the buffer is full and
\* drops the character
pbjson_ostream_put_char_drop(stream, c) ==
    IF stream.bytes_written >= stream.max_size
    THEN [stream |-> stream, err |-> 0]
    ELSE [stream |-> [stream EXCEPT !.mem = Poke(stream.mem, stream.s, c),
                                    !.s = stream.s + 1,
                                    !.bytes_written = stream.bytes_written + 1],
          err |-> 0]

\* pbjson_ostream_put_char that takes max_size as the last index it may
\* write and does not look at the count after the write
pbjson_ostream_put_char_lax(stream, c) ==
    IF stream.bytes_written > stream.max_size
    THEN [stream |-> stream, err |-> -1]
    ELSE [stream |-> [stream EXCEPT !.mem = Poke(stream.mem, stream.s, c),
                                    !.s = stream.s + 1,
                                    !.bytes_written = stream.bytes_written + 1],
          err |-> 0]

pbjson_ostream_put_char(stream, c) ==
    IF stream.bytes_written >= stream.max_size
    THEN [stream |-> stream, err |-> -1]
    ELSE LET st == [stream EXCEPT !.mem = Poke(stream.mem, stream.s, c),
                                  !.s = stream.s + 1,
                                  !.bytes_written = stream.bytes_written + 1]
         IN  [stream |-> st,
              err |-> IF st.bytes_written >= st.max_size THEN -1 ELSE 0]

pbjson_ostream_put_key(stream, s) ==
    Then(IF ~stream.is_wait_first_key
         THEN pbjson_ostream_put_char(stream, ",")
         ELSE [stream |-> stream, err |-> 0],
         LAMBDA comma :
            IF comma.err # 0 THEN comma
            ELSE IF comma.stream.bytes_written >= comma.stream.max_size
                 THEN [stream |-> comma.stream, err |-> -1]
            ELSE Then(snprintf(comma.stream.mem, comma.stream.s,
                               comma.stream.max_size - comma.stream.bytes_written,
                               <<Q>> \o s \o <<Q, ":">>),
                      LAMBDA p :
                         IF p.len <= 0
                         THEN [stream |-> Advance(comma.stream, p.mem, 0), err |-> -1]
                         ELSE [stream |-> Advance(comma.stream, p.mem, p.len), err |-> 0]))

\* the put_* value writers return the stream memory and the length they report
pbjson_ostream_put_string(stream, s) ==
    LET l == Len(s) + 2
        newLen == stream.bytes_written + l
    IN  IF newLen >= stream.max_size THEN [mem |-> stream.mem, len |-> -1]
        ELSE [mem |-> Poke(strcopy(Poke(stream.mem, stream.s, Q), stream.s + 1, s),
                           stream.s + 1 + Len(s), Q),
              len |-> l]

pbjson_ostream_put_bool(stream, val) ==
    LET l == IF val THEN 4 ELSE 5
        new_len == stream.bytes_written + l
    IN  IF new_len >= stream.max_size THEN [mem |-> stream.mem, len |-> -1]
        ELSE [mem |-> strcopy(stream.mem, stream.s,
                              IF val THEN <<"t","r","u","e">>
                                     ELSE <<"f","a","l","s","e">>),
              len |-> l]

pbjson_ostream_put_enum(stream, item_size, img, data) ==
    IF item_size \in {4, 2, 1}
    THEN snprintf(stream.mem, stream.s, stream.max_size - stream.bytes_written,
                  FormatInt(RdSigned(img, data, item_size)))
    ELSE [mem |-> stream.mem, len |-> -1]

pbjson_ostream_put_uenum(stream, item_size, img, data) ==
    IF item_size \in {4, 2, 1}
    THEN snprintf(stream.mem, stream.s, stream.max_size - stream.bytes_written,
                  FormatInt(RdUnsigned(img, data, item_size)))
    ELSE [mem |-> stream.mem, len |-> -1]

\* pbjson_struct_has_key that does not look at the presence flag
pbjson_struct_has_key_always(key, img, src) == TRUE

pbjson_struct_has_key(key, img, src) ==
    IF key.option = "OPTIONAL"
    THEN RdByte(img, src + key.count_offset) # 0
    ELSE TRUE

\* the switch of pbjson_encode_value: the stream memory and the length len
pbjson_encode_value_switch(stream, key, img, data_offset) ==
    CASE key.data_type = "STRING" ->
            pbjson_ostream_put_string(stream, CString(img, data_offset))
      [] key.data_type = "BOOL" ->
            pbjson_ostream_put_bool(stream, RdByte(img, data_offset) # 0)
      [] key.data_type = "INT32" ->
            snprintf(stream.mem, stream.s, stream.max_size - stream.bytes_written,
                     FormatInt(RdSigned(img, data_offset, 4)))
      [] key.data_type = "UINT32" ->
            snprintf(stream.mem, stream.s, stream.max_size - stream.bytes_written,
                     FormatInt(RdUnsigned(img, data_offset, 4)))
      [] key.data_type = "ENUM" ->
            pbjson_ostream_put_enum(stream, key.item_size, img, data_offset)
      [] key.data_type = "UENUM" ->
            pbjson_ostream_put_uenum(stream, key.item_size, img, data_offset)
      [] OTHER -> [mem |-> stream.mem, len |-> -1]

pbjson_encode_value(stream, key, img, data_offset) ==
    IF stream.bytes_written >= stream.max_size THEN [stream |-> stream, err |-> -1]
    ELSE Then(pbjson_encode_value_switch(stream, key, img, data_offset),
              LAMBDA p :
                 IF p.len <= 0 THEN [stream |-> Advance(stream, p.mem, 0), err |-> -1]
                 ELSE [stream |-> Advance(stream, p.mem, p.len), err |-> 0])

RECURSIVE pbjson_encode_dict(_, _, _, _)
RECURSIVE pbjson_encode_dict_loop(_, _, _, _, _)
RECURSIVE pbjson_encode_array(_, _, _, _, _)
RECURSIVE pbjson_encode_array_loop(_, _, _, _, _, _)
RECURSIVE pbjson_encode_key(_, _, _, _)

pbjson_encode_key(stream, key, img, src) ==
    IF ~pbjson_struct_has_key(key, img, src) THEN [stream |-> stream, err |-> 0]
    ELSE Then(pbjson_ostream_put_key(stream, key.name),
              LAMBDA k :
                 IF k.err # 0 THEN k
                 ELSE IF key.option = "REPEATED"
                      THEN pbjson_encode_array(k.stream, key,
                               RdUnsigned(img, src + key.count_offset, 4), img,
                               src + key.data_offset)
                 ELSE IF key.data_type = "MESSAGE"
                      THEN pbjson_encode_dict(k.stream, pbjson_msgdesc_t(key.submsg),
                                              img, src + key.data_offset)
                 ELSE pbjson_encode_value(k.stream, key, img, src + key.data_offset))

\* the for loop of pbjson_encode_dict, from field i (counted from 0)
pbjson_encode_dict_loop(stream, flds, img, src, i) ==
    IF i >= flds.num_field THEN pbjson_ostream_put_char(stream, "}")
    ELSE Then(pbjson_encode_key(stream, flds.iter[i + 1], img, src),
              LAMBDA k :
                 IF k.err # 0
                 THEN [stream |-> [k.stream EXCEPT !.is_wait_first_key = FALSE],
                       err |-> k.err]
                 ELSE pbjson_encode_dict_loop(
                          [k.stream EXCEPT !.is_wait_first_key = FALSE],
                          flds, img, src, i + 1))

pbjson_encode_dict(stream, flds, img, src) ==
    Then(pbjson_ostream_put_char(stream, "{"),
         LAMBDA o :
            IF o.err # 0 THEN o
            ELSE pbjson_encode_dict_loop([o.stream EXCEPT !.is_wait_first_key = TRUE],
                                         flds, img, src, 0))

\* the for loop of pbjson_encode_array, from element i, pSrc at offset p
pbjson_encode_array_loop(stream, key, count, img, p, i) ==
    IF i >= count THEN pbjson_ostream_put_char(stream, "]")
    ELSE Then(IF key.data_type = "MESSAGE"
              THEN pbjson_encode_dict(stream, pbjson_msgdesc_t(key.submsg), img, p)
              ELSE pbjson_encode_value(stream, key, img, p),
              LAMBDA e :
                 IF e.err # 0 THEN e
                 ELSE Then(IF i # count - 1
                           THEN pbjson_ostream_put_char(e.stream, ",")
                           ELSE [stream |-> e.stream, err |-> 0],
                           LAMBDA c :
                              IF c.err # 0 THEN c
                              ELSE pbjson_encode_array_loop(c.stream, key, count, img,
                                                            p + key.item_size, i + 1)))

pbjson_encode_array(stream, key, count, img, src) ==
    Then(pbjson_ostream_put_char(stream, "["),
         LAMBDA o :
            IF o.err # 0 THEN o
            ELSE pbjson_encode_array_loop(o.stream, key, count, img, src, 0))

\* pbjson_encode(s, len, fields, src_struct) on caller memory mem, the buffer
\* starting at index 0; the result is the caller memory afterwards and the
\* returned int
pbjson_encode(mem, l, flds, img) ==
    IF l < 3 THEN [mem |-> mem, ret |-> -1]
    ELSE Then(pbjson_encode_dict([mem |-> mem, s |-> 0, max_size |-> l - 1,
                                  bytes_written |-> 0, is_wait_first_key |-> FALSE],
                                 flds, img, 0),
              LAMBDA d :
                 [mem |-> Poke(d.stream.mem, d.stream.s, NUL),
                  ret |-> IF d.err # 0 THEN d.err ELSE d.stream.bytes_written])

(***************************************************************************)
(* Decoder (src/src/pbjson_decode.c)                                       *)
(*                                                                         *)
(* The parser's pointer s is an index into the text, counted from 0; the   *)
(* byte at index Len(text) is the terminating NUL.  Pointers into the      *)
(* message image are offsets from the start of the top-level image, and    *)
(* NULLPTR is the null pointer.  Every operator returns the cursor, the    *)
(* image and the int the function returns.                                 *)
(***************************************************************************)
NULLPTR == -1

\* content of a byte behind the terminator of the text
BEYOND == "BEYOND"

CharAt(text, s) ==
    IF s >= 0 /\ s < Len(text) THEN text[s + 1]
    ELSE IF s = Len(text) THEN NUL
    ELSE BEYOND

RECURSIVE pbjson_find_first_char(_, _)
pbjson_find_first_char(text, s) ==
    IF CharAt(text, s) \in {" ", "\n", "\t"}
    THEN IF CharAt(text, s + 1) = NUL THEN [s |-> s + 1, err |-> -1]
         ELSE pbjson_find_first_char(text, s + 1)
    ELSE [s |-> s, err |-> 0]

pbjson_jumpto_first_char(text, s, c) ==
    Then(pbjson_find_first_char(text, s),
         LAMBDA f :
            IF f.err # 0 THEN f
            ELSE IF CharAt(text, f.s) = c THEN [s |-> f.s + 1, err |-> 0]
            ELSE [s |-> f.s, err |-> -1])

\* sizeof(buff_brace)
sizeof_buff_brace == 64

\* an iteration of the while loop of pbjson_check_brace that lets the index
\* reach sizeof(buff_brace)
pbjson_check_brace_step_deep(st, c) ==
    IF st.is_string_open THEN [st EXCEPT !.is_string_open = (c # Q)]
    ELSE IF c \in {"{", "["}
         THEN IF st.cur_i + 1 > sizeof_buff_brace
              THEN [st EXCEPT !.cur_i = st.cur_i + 1, !.done = TRUE]
              ELSE [st EXCEPT !.buff_brace[st.cur_i + 1] = c,
                              !.cur_i = st.cur_i + 1,
                              !.used = st.used \cup {st.cur_i + 1}]
    ELSE IF c \in {"}", "]"}
         THEN IF st.buff_brace[st.cur_i] # (IF c = "}" THEN "{" ELSE "[")
              THEN [st EXCEPT !.done = TRUE, !.used = st.used \cup {st.cur_i}]
              ELSE [st EXCEPT !.cur_i = st.cur_i - 1, !.used = st.used \cup {st.cur_i}]
    ELSE [st EXCEPT !.is_string_open = (c = Q)]

\* an iteration of the while loop of pbjson_check_brace on the character c:
\* st holds the stack buff_brace, its index buff_brace_cur_i, is_string_open,
\* the set used of the indices at which buff_brace was read or written so
\* far, and done, set by a return -1
pbjson_check_brace_step(st, c) ==
    IF st.is_string_open THEN [st EXCEPT !.is_string_open = (c # Q)]
    ELSE IF c \in {"{", "["}
         THEN IF st.cur_i + 1 >= sizeof_buff_brace
              THEN [st EXCEPT !.cur_i = st.cur_i + 1, !.done = TRUE]
              ELSE [st EXCEPT !.buff_brace[st.cur_i + 1] = c,
                              !.cur_i = st.cur_i + 1,
                              !.used = st.used \cup {st.cur_i + 1}]
    ELSE IF c \in {"}", "]"}
         THEN IF st.buff_brace[st.cur_i] # (IF c = "}" THEN "{" ELSE "[")
              THEN [st EXCEPT !.done = TRUE, !.used = st.used \cup {st.cur_i}]
              ELSE [st EXCEPT !.cur_i = st.cur_i - 1, !.used = st.used \cup {st.cur_i}]
    ELSE [st EXCEPT !.is_string_open = (c = Q)]

\* the iterations of the while loop of pbjson_check_brace on the characters at
\* the indices lo to hi - 1, one half of them after the other
RECURSIVE pbjson_check_brace_loop(_, _, _, _)
pbjson_check_brace_loop(text, lo, hi, st) ==
    IF st.done \/ hi <= lo THEN st
    ELSE IF hi = lo + 1 THEN pbjson_check_brace_step(st, CharAt(text, lo))
    ELSE pbjson_check_brace_loop(text, (lo + hi) \div 2, hi,
             pbjson_check_brace_loop(text, lo, (lo + hi) \div 2, st))

\* the index of the terminator of the text, the first NUL: the byte behind
\* the text, or a NUL written into it
Terminator(text) ==
    IF \A j \in 1..Len(text) : text[j] # NUL THEN Len(text)
    ELSE CHOOSE s \in 0..(Len(text) - 1) :
            text[s + 1] = NUL /\ \A j \in 1..s : text[j] # NUL

\* pbjson_check_brace with the indices of buff_brace it used: the stack and
\* the Slack bytes behind it, buff_brace[0] set to ' '; the while loop runs
\* up to the terminator
pbjson_check_brace_run(text) ==
    Then(pbjson_check_brace_loop(text, 0, Terminator(text),
             [buff_brace |-> [i \in 0..(sizeof_buff_brace + Slack - 1) |->
                                 IF i = 0 THEN " " ELSE UNSET],
              cur_i |-> 0, is_string_open |-> FALSE, used |-> {0}, done |-> FALSE]),
         LAMBDA st : [ret |-> IF st.done \/ st.cur_i # 0 THEN -1 ELSE 0,
                      used |-> st.used])

\* a pre-pass that lets every text through
pbjson_check_brace_none(text) == 0

pbjson_check_brace(text) == pbjson_check_brace_run(text).ret

\* the result stt is the returned int; the cursor moves only when it is 1
RECURSIVE pbjson_check_obj_empty_loop(_, _, _, _)
pbjson_check_obj_empty_loop(text, s0, s, close_brace) ==
    IF CharAt(text, s) = NUL THEN [s |-> s0, stt |-> -1]
    ELSE IF CharAt(text, s) = close_brace THEN [s |-> s + 1, stt |-> 1]
    ELSE IF CharAt(text, s) # " " THEN [s |-> s0, stt |-> 0]
    ELSE pbjson_check_obj_empty_loop(text, s0, s + 1, close_brace)

pbjson_check_obj_empty(text, s, close_brace) ==
    pbjson_check_obj_empty_loop(text, s, s, close_brace)

\* a for loop of pbjson_get_string that runs while i <= item_size
RECURSIVE pbjson_get_string_loop_over(_, _, _, _, _, _)
pbjson_get_string_loop_over(text, s, key, mem, d, i) ==
    IF i > key.item_size THEN [s |-> s, mem |-> mem, err |-> 0]
    ELSE IF CharAt(text, s) = Q THEN [s |-> s + 1, mem |-> WrByte(mem, d, 0), err |-> 0]
    ELSE IF CharAt(text, s) = NUL THEN [s |-> s, mem |-> WrByte(mem, d, 0), err |-> -1]
    ELSE pbjson_get_string_loop_over(text, s + 1, key,
                                     WrByte(mem, d, Ord(CharAt(text, s))), d + 1, i + 1)

\* the for loop of pbjson_get_string: i characters stored, the next at d
RECURSIVE pbjson_get_string_loop(_, _, _, _, _, _)
pbjson_get_string_loop(text, s, key, mem, d, i) ==
    IF i >= key.item_size THEN [s |-> s, mem |-> mem, err |-> 0]
    ELSE IF CharAt(text, s) = Q THEN [s |-> s + 1, mem |-> WrByte(mem, d, 0), err |-> 0]
    ELSE IF CharAt(text, s) = NUL THEN [s |-> s, mem |-> WrByte(mem, d, 0), err |-> -1]
    ELSE pbjson_get_string_loop(text, s + 1, key,
                                WrByte(mem, d, Ord(CharAt(text, s))), d + 1, i + 1)

pbjson_get_string(text, s, key, mem, d) ==
    IF CharAt(text, s) # Q THEN [s |-> s, mem |-> mem, err |-> -1]
    ELSE pbjson_get_string_loop(text, s + 1, key, mem, d, 0)

\* strncmp(lit, text + s, Len(lit)) = 0
StartsWith(text, s, lit) == \A i \in 1..Len(lit) : CharAt(text, s + i - 1) = lit[i]

pbjson_get_bool(text, s, mem, d) ==
    IF StartsWith(text, s, <<"t","r","u","e">>)
    THEN [s |-> s + 4, mem |-> WrByte(mem, d, 1), err |-> 0]
    ELSE IF StartsWith(text, s, <<"f","a","l","s","e">>)
    THEN [s |-> s + 5, mem |-> WrByte(mem, d, 0), err |-> 0]
    ELSE [s |-> s, mem |-> mem, err |-> -1]

\* the digits read by strtol / strtoul from index s, value acc so far
RECURSIVE strtol_digits(_, _, _)
strtol_digits(text, s, acc) ==
    IF IsDigit(CharAt(text, s))
    THEN strtol_digits(text, s + 1, 10 * acc + (IndexOf(Digits, CharAt(text, s)) - 1))
    ELSE [end |-> s, val |-> acc]

RECURSIVE strtol_space(_, _)
strtol_space(text, s) ==
    IF CharAt(text, s) \in {" ", "\n", "\t"} THEN strtol_space(text, s + 1) ELSE s

\* C strtol(text + s, &end_ptr, 10) and strtoul: white space, an optional
\* sign, digits; end_ptr = s and value 0 when there is no digit
strtol(text, s) ==
    Then(strtol_space(text, s),
         LAMBDA b :
            Then(strtol_digits(text, IF CharAt(text, b) \in {"-", "+"} THEN b + 1 ELSE b, 0),
                 LAMBDA r :
                    IF r.end = (IF CharAt(text, b) \in {"-", "+"} THEN b + 1 ELSE b)
                    THEN [end |-> s, val |-> 0]
                    ELSE [end |-> r.end,
                          val |-> IF CharAt(text, b) = "-" THEN -r.val ELSE r.val]))

\* the image is that of the 4-byte object at d, which the source stores
\* before it looks at end_ptr
pbjson_get_number(text, s, type, mem, d) ==
    IF type \in {"INT32", "UINT32"}
    THEN Then(strtol(text, s),
              LAMBDA r :
                 IF r.end = s THEN [s |-> s, mem |-> WrInt(mem, d, 4, r.val), err |-> -1]
                 ELSE [s |-> r.end, mem |-> WrInt(mem, d, 4, r.val), err |-> 0])
    ELSE [s |-> s, mem |-> mem, err |-> -1]

\* pbjson_get_enum and pbjson_get_uenum: the number is read into a local and
\* narrowed to item_size bytes
pbjson_get_enum(text, s, key, mem, d) ==
    Then(strtol(text, s),
         LAMBDA r :
            IF r.end = s THEN [s |-> s, mem |-> mem, err |-> -1]
            ELSE IF key.item_size \in {1, 2, 4}
                 THEN [s |-> r.end, mem |-> WrInt(mem, d, key.item_size, r.val), err |-> 0]
            ELSE [s |-> r.end, mem |-> mem, err |-> -1])

pbjson_get_uenum(text, s, key, mem, d) == pbjson_get_enum(text, s, key, mem, d)

(* The steps of a call of pbjson_decode, in the order in which they return: *)
(* every result carries the log of the steps made to reach it, each with   *)
(* the cursor, the image and the int at its return.                        *)
Event(step, s, mem, err) == [step |-> step, s |-> s, mem |-> mem, err |-> err]

\* the result of a step that leaves the image alone
Step(step, r, mem) ==
    [s |-> r.s, mem |-> mem, err |-> r.err, log |-> << Event(step, r.s, mem, r.err) >>]

\* the result of a step that returns its image
StepOn(step, r) ==
    [s |-> r.s, mem |-> r.mem, err |-> r.err, log |-> << Event(step, r.s, r.mem, r.err) >>]

\* result r, reached after the steps of result k
After(k, r) == [r EXCEPT !.log = k.log \o @]

\* result r as the return of the function called step
Return(step, r) == [r EXCEPT !.log = @ \o << Event(step, r.s, r.mem, r.err) >>]

pbjson_decode_value(text, s, key, mem, d) ==
    Return("pbjson_decode_value",
        Then(Step("pbjson_find_first_char", pbjson_find_first_char(text, s), mem),
             LAMBDA f :
                IF f.err # 0 THEN f
                ELSE After(f,
                   CASE key.data_type = "STRING" ->
                           StepOn("pbjson_get_string",
                                  pbjson_get_string(text, f.s, key, mem, d))
                     [] key.data_type = "BOOL" ->
                           StepOn("pbjson_get_bool", pbjson_get_bool(text, f.s, mem, d))
                     [] key.data_type \in {"INT32", "UINT32"} ->
                           StepOn("pbjson_get_number",
                                  pbjson_get_number(text, f.s, key.data_type, mem, d))
                     [] key.data_type = "ENUM" ->
                           StepOn("pbjson_get_enum", pbjson_get_enum(text, f.s, key, mem, d))
                     [] key.data_type = "UENUM" ->
                           StepOn("pbjson_get_uenum",
                                  pbjson_get_uenum(text, f.s, key, mem, d))
                     [] OTHER -> [s |-> f.s, mem |-> mem, err |-> -1, log |-> << >>])))

\* the cursor moves behind the closing quote only when the key matches
pbjson_check_key(text, s, key) ==
    IF StartsWith(text, s, key) /\ CharAt(text, s + Len(key)) = Q
    THEN [s |-> s + Len(key) + 1, err |-> 0]
    ELSE [s |-> s, err |-> -1]

\* the while loop of pbjson_discard_value
RECURSIVE pbjson_discard_value_loop(_, _, _, _)
pbjson_discard_value_loop(text, s, n_brace_open, is_string_open) ==
    LET c == CharAt(text, s)
    IN  IF c = NUL THEN [s |-> s, err |-> -1]
        ELSE IF is_string_open
             THEN pbjson_discard_value_loop(text, s + 1, n_brace_open, c # Q)
        ELSE IF c \in {"{", "["}
             THEN pbjson_discard_value_loop(text, s + 1, n_brace_open + 1, FALSE)
        ELSE IF c \in {"]", "}"}
             THEN IF n_brace_open = 0 THEN [s |-> s + 1, err |-> 0]
                  ELSE pbjson_discard_value_loop(text, s + 1, n_brace_open - 1, FALSE)
        ELSE IF c = ","
             THEN IF n_brace_open = 0 THEN [s |-> s + 1, err |-> 0]
                  ELSE [s |-> s, err |-> -1]
        ELSE pbjson_discard_value_loop(text, s + 1, n_brace_open, c = Q)

\* a pbjson_discard_value whose last parser->s++ also runs when the loop ends
\* on the terminator
pbjson_discard_value_past(text, s) ==
    Then(pbjson_discard_value_loop(text, s, 0, FALSE),
         LAMBDA r : IF r.err # 0 /\ CharAt(text, r.s) = NUL
                    THEN [r EXCEPT !.s = r.s + 1] ELSE r)

pbjson_discard_value(text, s) == pbjson_discard_value_loop(text, s, 0, FALSE)

\* the for loop of pbjson_decode_key: the index of the first field whose name
\* matches at s, 0 when there is none (piter = NULL)
MatchField(text, s, flds) ==
    LET hits == { i \in 1..flds.num_field : pbjson_check_key(text, s, flds.iter[i].name).err = 0 }
    IN  IF hits = {} THEN 0 ELSE CHOOSE i \in hits : \A j \in hits : i <= j

\* the while loop that passes an unmatched key
RECURSIVE SkipKey(_, _)
SkipKey(text, s) ==
    IF CharAt(text, s) = Q THEN [s |-> s + 1, err |-> 0]
    ELSE IF CharAt(text, s) = NUL THEN [s |-> s, err |-> -1]
    ELSE SkipKey(text, s + 1)

RECURSIVE pbjson_decode_dict(_, _, _, _, _, _)
RECURSIVE pbjson_decode_dict_loop(_, _, _, _, _)
RECURSIVE pbjson_decode_dict_next(_, _, _, _, _)
RECURSIVE pbjson_decode_array_next(_, _, _, _, _, _, _)
RECURSIVE pbjson_decode_key_value(_, _, _, _, _)
RECURSIVE pbjson_decode_array(_, _, _, _, _)
RECURSIVE pbjson_decode_array_loop(_, _, _, _, _, _, _)
RECURSIVE pbjson_decode_key(_, _, _, _, _)

\* pbjson_decode_key once the key is read: piter the matching field, s behind
\* the closing quote of the key
pbjson_decode_key_value(text, s, piter, mem, d) ==
    Then(Step("pbjson_jumpto_first_char", pbjson_jumpto_first_char(text, s, ":"), mem),
         LAMBDA c :
            IF c.err # 0 THEN c
            ELSE After(c,
               IF piter.option = "REPEATED"
               THEN pbjson_decode_array(text, c.s, piter, mem, d)
               ELSE IF piter.data_type = "MESSAGE"
               THEN pbjson_decode_dict(text, c.s, pbjson_msgdesc_t(piter.submsg), mem,
                                       d + piter.data_offset, d + piter.count_offset)
               ELSE pbjson_decode_value(text, c.s, piter,
                        IF piter.option = "OPTIONAL"
                        THEN WrByte(mem, d + piter.count_offset, 1) ELSE mem,
                        d + piter.data_offset)))

\* pbjson_decode_key when no field matches (piter = NULL), s behind the
\* opening quote of the key
pbjson_decode_key_unknown(text, s, mem) ==
    Then(SkipKey(text, s),
         LAMBDA k :
            IF k.err # 0 THEN [s |-> k.s, mem |-> mem, err |-> -1, log |-> << >>]
            ELSE Then(Step("pbjson_jumpto_first_char",
                           pbjson_jumpto_first_char(text, k.s, ":"), mem),
                      LAMBDA c :
                         IF c.err # 0 THEN c
                         ELSE After(c, Step("pbjson_discard_value",
                                            pbjson_discard_value(text, c.s), mem))))

pbjson_decode_key(text, s, flds, mem, d) ==
    Return("pbjson_decode_key",
        Then(Step("pbjson_jumpto_first_char", pbjson_jumpto_first_char(text, s, Q), mem),
             LAMBDA q :
                IF q.err # 0 THEN q
                ELSE After(q,
                   Then(MatchField(text, q.s, flds),
                        LAMBDA i :
                           IF i = 0 THEN pbjson_decode_key_unknown(text, q.s, mem)
                           ELSE pbjson_decode_key_value(text,
                                    pbjson_check_key(text, q.s, flds.iter[i].name).s,
                                    flds.iter[i], mem, d)))))

\* the rest of an iteration of the while (true) loop of pbjson_decode_dict,
\* after pbjson_decode_key returned 0 with cursor s and image mem
pbjson_decode_dict_next(text, s, flds, mem, d) ==
    Then(Step("pbjson_find_first_char", pbjson_find_first_char(text, s), mem),
         LAMBDA f :
            IF f.err # 0 THEN f
            ELSE IF CharAt(text, f.s) = "}" THEN [f EXCEPT !.s = f.s + 1]
            ELSE IF CharAt(text, f.s) # "," THEN [f EXCEPT !.err = -1]
            ELSE After(f, pbjson_decode_dict_loop(text, f.s + 1, flds, mem, d)))

\* a loop that goes on to the separator after a pbjson_decode_key that failed
pbjson_decode_dict_loop_on(text, s, flds, mem, d) ==
    Then(pbjson_decode_key(text, s, flds, mem, d),
         LAMBDA k : After(k, pbjson_decode_dict_next(text, k.s, flds, k.mem, d)))

\* the while (true) loop of pbjson_decode_dict
pbjson_decode_dict_loop(text, s, flds, mem, d) ==
    Then(pbjson_decode_key(text, s, flds, mem, d),
         LAMBDA k :
            IF k.err # 0 THEN k
            ELSE After(k, pbjson_decode_dict_next(text, k.s, flds, k.mem, d)))

\* a pbjson_decode_dict that leaves the presence flag alone on an empty object
pbjson_decode_dict_keep(text, s, flds, mem, d, p_has_msg) ==
    Return("pbjson_decode_dict",
        Then(Step("pbjson_jumpto_first_char", pbjson_jumpto_first_char(text, s, "{"), mem),
             LAMBDA o :
                IF o.err # 0 THEN o
                ELSE After(o,
                   Then(pbjson_check_obj_empty(text, o.s, "}"),
                        LAMBDA e :
                           IF e.stt < 0
                           THEN Step("pbjson_check_obj_empty", [s |-> e.s, err |-> e.stt], mem)
                           ELSE IF e.stt # 0
                                THEN IF p_has_msg # NULLPTR
                                     THEN [s |-> e.s, mem |-> mem,
                                           err |-> 0, log |-> << >>]
                                     ELSE [s |-> e.s, mem |-> mem, err |-> -1, log |-> << >>]
                           ELSE pbjson_decode_dict_loop(text, e.s, flds,
                                    IF p_has_msg # NULLPTR
                                    THEN WrByte(mem, p_has_msg, 1) ELSE mem, d)))))

pbjson_decode_dict(text, s, flds, mem, d, p_has_msg) ==
    Return("pbjson_decode_dict",
        Then(Step("pbjson_jumpto_first_char", pbjson_jumpto_first_char(text, s, "{"), mem),
             LAMBDA o :
                IF o.err # 0 THEN o
                ELSE After(o,
                   Then(pbjson_check_obj_empty(text, o.s, "}"),
                        LAMBDA e :
                           IF e.stt < 0
                           THEN Step("pbjson_check_obj_empty", [s |-> e.s, err |-> e.stt], mem)
                           ELSE IF e.stt # 0
                                THEN IF p_has_msg # NULLPTR
                                     THEN [s |-> e.s, mem |-> WrByte(mem, p_has_msg, 0),
                                           err |-> 0, log |-> << >>]
                                     ELSE [s |-> e.s, mem |-> mem, err |-> -1, log |-> << >>]
                           ELSE pbjson_decode_dict_loop(text, e.s, flds,
                                    IF p_has_msg # NULLPTR
                                    THEN WrByte(mem, p_has_msg, 1) ELSE mem, d)))))

\* a pbjson_decode_array that does not count its last element
pbjson_decode_array_next_short(text, s, key, mem, d, data, count) ==
    Then(Step("pbjson_find_first_char", pbjson_find_first_char(text, s), mem),
         LAMBDA f :
            IF f.err # 0 THEN f
            ELSE IF CharAt(text, f.s) = "]"
                 THEN [f EXCEPT !.s = f.s + 1,
                                !.mem = WrInt(mem, d + key.count_offset, 4, count)]
            ELSE IF CharAt(text, f.s) # "," THEN [f EXCEPT !.err = -1]
            ELSE After(f, pbjson_decode_array_loop(text, f.s + 1, key, mem, d,
                                                   data + key.item_size, count + 1)))

\* the rest of an iteration of the while (true) loop of pbjson_decode_array,
\* after the element at data was decoded with cursor s and image mem
pbjson_decode_array_next(text, s, key, mem, d, data, count) ==
    Then(Step("pbjson_find_first_char", pbjson_find_first_char(text, s), mem),
         LAMBDA f :
            IF f.err # 0 THEN f
            ELSE IF CharAt(text, f.s) = "]"
                 THEN [f EXCEPT !.s = f.s + 1,
                                !.mem = WrInt(mem, d + key.count_offset, 4, count + 1)]
            ELSE IF CharAt(text, f.s) # "," THEN [f EXCEPT !.err = -1]
            ELSE After(f, pbjson_decode_array_loop(text, f.s + 1, key, mem, d,
                                                   data + key.item_size, count + 1)))

\* the while (true) loop of pbjson_decode_array: count elements stored, the
\* next one at data
pbjson_decode_array_loop(text, s, key, mem, d, data, count) ==
    Then(IF key.data_type = "MESSAGE"
         THEN pbjson_decode_dict(text, s, pbjson_msgdesc_t(key.submsg), mem,
                                 data, NULLPTR)
         ELSE pbjson_decode_value(text, s, key, mem, data),
         LAMBDA e :
            IF e.err # 0 THEN e
            ELSE After(e, pbjson_decode_array_next(text, e.s, key, e.mem, d, data, count)))

pbjson_decode_array(text, s, key, mem, d) ==
    Return("pbjson_decode_array",
        Then(Step("pbjson_jumpto_first_char", pbjson_jumpto_first_char(text, s, "["), mem),
             LAMBDA o :
                IF o.err # 0 THEN o
                ELSE After(o,
                   Then(pbjson_check_obj_empty(text, o.s, "]"),
                        LAMBDA e :
                           IF e.stt < 0
                           THEN Step("pbjson_check_obj_empty", [s |-> e.s, err |-> e.stt], mem)
                           ELSE IF e.stt = 0
                                THEN pbjson_decode_array_loop(text, e.s, key, mem, d,
                                                              d + key.data_offset, 0)
                           ELSE [s |-> e.s,
                                 mem |-> WrInt(mem, d + key.count_offset, 4, 0),
                                 err |-> 0, log |-> << >>]))))

\* pbjson_decode(s, fields, dst) with dst the image mem
pbjson_decode(text, flds, mem) ==
    Return("pbjson_decode",
        Then(Step("pbjson_check_brace", [s |-> 0, err |-> pbjson_check_brace(text)], mem),
             LAMBDA b :
                IF b.err # 0 THEN b
                ELSE After(b, pbjson_decode_dict(text, 0, flds, mem, 0, NULLPTR))))

(***************************************************************************)
(* The callers: the messages, buffers and texts handed to the codec        *)
(***************************************************************************)
IntVals == {7, -12}

EnumVals == {2, -1}

StrVals == { << >>, <<"h">>, <<"h", "i">> }

\* write the characters of a C string into a zeroed slot
RECURSIVE WrString(_, _, _)
WrString(img, off, text) ==
    IF text = << >> THEN img
    ELSE WrString(WrByte(img, off, Ord(Head(text))), off + 1, Tail(text))

\* elements the array behind a repeated field has room for (the array is the
\* last member of its struct)
ArrayLen(m, key) == (StructSize[m] - key.data_offset) \div key.item_size

RECURSIVE MsgImages(_, _, _)
RECURSIVE FieldsFrom(_, _, _, _)
RECURSIVE ElemsFrom(_, _, _, _, _)
RECURSIVE ValueImages(_, _, _)

\* the images obtained from img by giving the value at off every value of its type
ValueImages(key, off, img) ==
    CASE key.data_type = "MESSAGE" -> MsgImages(key.submsg, off, img)
      [] key.data_type = "BOOL" -> { WrByte(img, off, b) : b \in {0, 1} }
      [] key.data_type = "INT32" -> { WrInt(img, off, 4, v) : v \in IntVals }
      [] key.data_type = "ENUM" -> { WrInt(img, off, key.item_size, v) : v \in EnumVals }
      [] key.data_type = "STRING" ->
            { WrString(img, off, t) : t \in { u \in StrVals : Len(u) < key.item_size } }

ElemsFrom(key, off, i, n, img) ==
    IF i >= n THEN {img}
    ELSE UNION { ElemsFrom(key, off + key.item_size, i + 1, n, g) :
                   g \in ValueImages(key, off, img) }

FieldImages(m, key, base, img) ==
    CASE key.option = "REPEATED" ->
            UNION { ElemsFrom(key, base + key.data_offset, 0, n,
                              WrInt(img, base + key.count_offset, 4, n)) :
                      n \in 0..ArrayLen(m, key) }
      [] key.option = "OPTIONAL" ->
            {img} \cup ValueImages(key, base + key.data_offset,
                                   WrByte(img, base + key.count_offset, 1))
      [] OTHER -> ValueImages(key, base + key.data_offset, img)

FieldsFrom(m, i, base, img) ==
    IF i > Len(FieldInfo[m]) THEN {img}
    ELSE UNION { FieldsFrom(m, i + 1, base, g) :
                   g \in FieldImages(m, FieldInfo[m][i], base, img) }

\* every value of message type m, written at base into img
MsgImages(m, base, img) == FieldsFrom(m, 1, base, img)

Messages(m) == MsgImages(m, 0, ZeroImage(StructSize[m]))

\* caller memory: an output buffer of l bytes and the Slack bytes behind it
CallerMem(l) == [i \in 0..(l + Slack - 1) |-> UNSET]

\* the first n bytes of caller memory, as a text
TextOf(mem, n) == [i \in 1..n |-> mem[i - 1]]

\* the C string held by caller memory from index 0
RECURSIVE BufferText(_, _)
BufferText(mem, i) ==
    IF i \notin DOMAIN mem \/ mem[i] = NUL THEN << >>
    ELSE << mem[i] >> \o BufferText(mem, i + 1)

(* A JSON writer of the caller's side: the well-formed text of a message,    *)
(* the pairs of each object separated by single commas.                      *)
RECURSIVE JoinWith(_, _)
JoinWith(parts, sep) ==
    IF parts = << >> THEN << >>
    ELSE IF Len(parts) = 1 THEN parts[1]
    ELSE parts[1] \o sep \o JoinWith(Tail(parts), sep)

RECURSIVE JsonObject(_, _, _)
RECURSIVE JsonPairs(_, _, _, _)
RECURSIVE JsonElems(_, _, _, _, _)
RECURSIVE JsonValue(_, _, _)

JsonValue(key, img, off) ==
    CASE key.data_type = "MESSAGE" -> JsonObject(key.submsg, img, off)
      [] key.data_type = "BOOL" ->
            IF RdByte(img, off) # 0 THEN <<"t","r","u","e">> ELSE <<"f","a","l","s","e">>
      [] key.data_type = "INT32" -> FormatInt(RdSigned(img, off, 4))
      [] key.data_type = "ENUM" -> FormatInt(RdSigned(img, off, key.item_size))
      [] key.data_type = "STRING" -> <<Q>> \o CString(img, off) \o <<Q>>

JsonElems(key, img, off, i, n) ==
    IF i >= n THEN << >>
    ELSE << JsonValue(key, img, off) >> \o JsonElems(key, img, off + key.item_size, i + 1, n)

\* the "name":value pairs of the fields of m from field i on, absent optional
\* fields left out
JsonPairs(m, img, base, i) ==
    IF i > Len(FieldInfo[m]) THEN << >>
    ELSE LET key == FieldInfo[m][i]
             val == IF key.option = "REPEATED"
                    THEN <<"[">> \o JoinWith(JsonElems(key, img, base + key.data_offset, 0,
                                        RdUnsigned(img, base + key.count_offset, 4)), <<",">>)
                         \o <<"]">>
                    ELSE JsonValue(key, img, base + key.data_offset)
         IN  (IF key.option = "OPTIONAL" /\ RdByte(img, base + key.count_offset) = 0
              THEN << >>
              ELSE << <<Q>> \o key.name \o <<Q, ":">> \o val >>)
             \o JsonPairs(m, img, base, i + 1)

JsonObject(m, img, base) ==
    <<"{">> \o JoinWith(JsonPairs(m, img, base, 1), <<",">>) \o <<"}">>

\* a key no descriptor has, and the scalar values given to it
UnknownKey == <<"u">>

UnknownValues == { <<"5">>, <<"t","r","u","e">>, <<Q, "h", Q>> }

\* pairs with the pair p put in front of the pair at position i
InsertAt(pairs, i, p) == SubSeq(pairs, 1, i - 1) \o <<p>> \o SubSeq(pairs, i, Len(pairs))

\* the unknown-key text of section 8 of the specification
UnknownFieldText ==
    <<"{", Q, "u","n","k","n","o","w","n","F","i","e","l","d", Q, ":", " ",
      "{", Q, "a", Q, ":", "[", "1", ",", "2", ",", "{", Q, "b", Q, ":", "3", "}", "]", "}",
      ",", " ", Q, "k","n","o","w","n", Q, ":", "t","r","u","e", "}">>

\* the text test_decode4 decodes and the text of test_decode6
TwoElementText ==
    <<"{", Q, "a","r","r","a","y", Q, ":", "[", "1", "2", ",", "1", "4", "]", "}">>

EmptyArrayText ==
    <<"{", " ", " ", Q, "a","r","r","a","y", Q, " ", " ", ":", " ", "[", "]", " ", "}", " ">>

\* literal texts decoded against a descriptor
Literals ==
    { [fields |-> "Known", text |-> UnknownFieldText],
      [fields |-> "Rep", text |-> TwoElementText],
      [fields |-> "Rep", text |-> EmptyArrayText] }

Init ==
    /\ pc = "start"
    /\ fields \in MsgNames
    /\ src_struct \in Messages(fields)
    /\ len = 0
    /\ buf = CallerMem(0)
    /\ ret = 0
    /\ json = << >>
    /\ plain = << >>
    /\ dst = ZeroImage(StructSize[fields])
    /\ derr = 0

\* the caller runs pbjson_encode(buf, l, fields, &src_struct) on a buffer of
\* l bytes
Encode ==
    /\ pc = "start"
    /\ \E l \in 0..MaxLen :
          \E r \in { pbjson_encode(CallerMem(l), l, pbjson_msgdesc_t(fields), src_struct) } :
              /\ len' = l
              /\ buf' = r.mem
              /\ ret' = r.ret
    /\ pc' = "encoded"
    /\ UNCHANGED <<fields, src_struct, json, plain, dst, derr>>

\* the caller runs pbjson_decode(text, fields, &dst) on its cleared image
Decode(text) ==
    \E r \in { pbjson_decode(text, pbjson_msgdesc_t(fields), dst) } :
        /\ json' = text
        /\ dst' = r.mem
        /\ derr' = r.err

\* ... on the text a successful pbjson_encode left in the buffer
DecodeEncoded ==
    /\ pc = "encoded"
    /\ ret >= 0
    /\ Decode(BufferText(buf, 0))
    /\ plain' = BufferText(buf, 0)
    /\ pc' = "roundtrip"
    /\ UNCHANGED <<fields, src_struct, len, buf, ret>>

\* ... on the well-formed text of the message
DecodeWellFormed ==
    /\ pc = "start"
    /\ Decode(JsonObject(fields, src_struct, 0))
    /\ plain' = JsonObject(fields, src_struct, 0)
    /\ pc' = "wellformed"
    /\ UNCHANGED <<fields, src_struct, len, buf, ret>>

\* ... on the well-formed text of the message with one more pair, of a key
\* the descriptor does not have, at any position
DecodeUnknown ==
    /\ pc = "start"
    /\ \E pairs \in { JsonPairs(fields, src_struct, 0, 1) } :
          \E i \in 1..(Len(pairs) + 1), v \in UnknownValues :
              /\ Decode(<<"{">> \o JoinWith(InsertAt(pairs, i,
                            <<Q>> \o UnknownKey \o <<Q, ":">> \o v), <<",">>) \o <<"}">>)
              /\ plain' = JsonObject(fields, src_struct, 0)
    /\ pc' = "unknown"
    /\ UNCHANGED <<fields, src_struct, len, buf, ret>>

\* ... on a literal text
DecodeLiteral ==
    /\ pc = "start"
    /\ \E l \in Literals :
          /\ l.fields = fields
          /\ Decode(l.text)
          /\ plain' = l.text
    /\ pc' = "literal"
    /\ UNCHANGED <<fields, src_struct, len, buf, ret>>

\* index i of text t is outside the string literals of t
OutsideString(t, i) == Cardinality({ j \in 1..(i - 1) : t[j] = Q }) % 2 = 0

\* text t without its character at index i
DropAt(t, i) == SubSeq(t, 1, i - 1) \o SubSeq(t, i + 1, Len(t))

\* the closer of the other kind
OtherCloser(c) == IF c = "}" THEN "]" ELSE "}"

\* the texts one brace or bracket away from text t: one of them missing, a
\* closer of the wrong kind, one closer more
OffBalance(t) ==
    { DropAt(t, i) : i \in { j \in 1..Len(t) :
                               OutsideString(t, j) /\ t[j] \in {"{", "}", "[", "]"} } }
    \cup { [t EXCEPT ![i] = OtherCloser(t[i])] :
              i \in { j \in 1..Len(t) : OutsideString(t, j) /\ t[j] \in {"}", "]"} } }
    \cup { InsertAt(t, i, c) :
              i \in { j \in 1..(Len(t) + 1) : OutsideString(t, j) }, c \in {"}", "]"} }

\* the unbalanced texts of section 8 of the specification and the empty text
MissingCloserText == <<"{", Q, "x", Q, ":", " ", "{", "}">>

WrongCloserText == <<"{", Q, "x", Q, ":", " ", "[", "1", ",", "2", ",", "}">>

\* ... on a text whose braces and brackets do not match, or on the empty text
DecodeUnbalanced ==
    /\ pc = "start"
    /\ \E t \in OffBalance(JsonObject(fields, src_struct, 0))
                  \cup {MissingCloserText, WrongCloserText, << >>} :
          Decode(t)
    /\ plain' = JsonObject(fields, src_struct, 0)
    /\ pc' = "unbalanced"
    /\ UNCHANGED <<fields, src_struct, len, buf, ret>>

\* the start of the pair of the key called name
KeyPrefix(name) == <<Q>> \o name \o <<Q, ":">>

\* pair p is the pair of the key called name
IsPairOf(p, name) ==
    Len(p) >= Len(name) + 3 /\ SubSeq(p, 1, Len(name) + 3) = KeyPrefix(name)

\* the pairs of a sequence of pairs whose key is not called name
RECURSIVE WithoutKey(_, _)
WithoutKey(pairs, name) ==
    IF pairs = << >> THEN << >>
    ELSE (IF IsPairOf(Head(pairs), name) THEN << >> ELSE << Head(pairs) >>)
         \o WithoutKey(Tail(pairs), name)

\* a string literal of n letters
LongLiteral(n) == SubSeq(Letters, 8, 7 + n)

\* ... on the well-formed text of the message in which the literal of a
\* string field has item_size characters or more, the pair at any position
DecodeLongString ==
    /\ pc = "start"
    /\ \E k \in 1..Len(FieldInfo[fields]) :
          /\ FieldInfo[fields][k].data_type = "STRING"
          /\ FieldInfo[fields][k].option # "REPEATED"
          /\ \E pairs \in { WithoutKey(JsonPairs(fields, src_struct, 0, 1),
                                       FieldInfo[fields][k].name) } :
                \E i \in 1..(Len(pairs) + 1),
                   n \in FieldInfo[fields][k].item_size..(FieldInfo[fields][k].item_size + 1) :
                    /\ Decode(<<"{">> \o JoinWith(InsertAt(pairs, i,
                                  KeyPrefix(FieldInfo[fields][k].name)
                                  \o <<Q>> \o LongLiteral(n) \o <<Q>>), <<",">>) \o <<"}">>)
                    /\ plain' = LongLiteral(n)
    /\ pc' = "longstring"
    /\ UNCHANGED <<fields, src_struct, len, buf, ret>>

\* the caller runs pbjson_decode(text, fields, &img) on an image of its own
DecodeInto(text, img) ==
    \E r \in { pbjson_decode(text, pbjson_msgdesc_t(fields), img) } :
        /\ json' = text
        /\ dst' = r.mem
        /\ derr' = r.err

\* a non-empty object that ends behind its first key
BrokenObject == <<"{", Q>> \o UnknownKey \o <<Q, "}">>

\* ... on the well-formed text of the message in which the value of an
\* optional nested-message field is {} or a broken object, the pair at any
\* position, into a cleared image or into one that holds the message
DecodeEmptyOptional ==
    /\ pc = "start"
    /\ \E k \in 1..Len(FieldInfo[fields]) :
          /\ FieldInfo[fields][k].data_type = "MESSAGE"
          /\ FieldInfo[fields][k].option = "OPTIONAL"
          /\ \E pairs \in { WithoutKey(JsonPairs(fields, src_struct, 0, 1),
                                       FieldInfo[fields][k].name) } :
                \E i \in 1..(Len(pairs) + 1), v \in { <<"{", "}">>, BrokenObject },
                   stale \in BOOLEAN :
                    /\ DecodeInto(<<"{">> \o JoinWith(InsertAt(pairs, i,
                                      KeyPrefix(FieldInfo[fields][k].name) \o v), <<",">>)
                                  \o <<"}">>,
                                  IF stale THEN src_struct ELSE dst)
                    /\ plain' = <<"{">> \o JoinWith(pairs, <<",">>) \o <<"}">>
                    /\ pc' = IF stale THEN "emptyopt_stale" ELSE "emptyopt"
    /\ UNCHANGED <<fields, src_struct, len, buf, ret>>

\* the values with an empty object for a nested-message field without
\* presence flag: {} itself for a singular field, the array of the message
\* with {} as one more element for a repeated field
EmptyObjectValues(key) ==
    IF key.option = "REPEATED"
    THEN { <<"[">> \o JoinWith(InsertAt(elems, j, <<"{", "}">>), <<",">>) \o <<"]">> :
             elems \in { JsonElems(key, src_struct, key.data_offset, 0,
                                   RdUnsigned(src_struct, key.count_offset, 4)) },
             j \in 1..(RdUnsigned(src_struct, key.count_offset, 4) + 1) }
    ELSE { <<"{", "}">> }

\* the texts of the message with {} where the decode target has no presence
\* flag: as the whole text, as an element of a repeated nested-message field,
\* as the value of a singular nested-message field
EmptyObjectTexts ==
    { <<"{", "}">> }
    \cup UNION { { <<"{">> \o JoinWith(InsertAt(
                                  WithoutKey(JsonPairs(fields, src_struct, 0, 1),
                                             FieldInfo[fields][k].name),
                                  i, KeyPrefix(FieldInfo[fields][k].name) \o v), <<",">>)
                   \o <<"}">> :
                     i \in 1..(Len(WithoutKey(JsonPairs(fields, src_struct, 0, 1),
                                              FieldInfo[fields][k].name)) + 1),
                     v \in EmptyObjectValues(FieldInfo[fields][k]) } :
                 k \in { n \in 1..Len(FieldInfo[fields]) :
                           /\ FieldInfo[fields][n].data_type = "MESSAGE"
                           /\ FieldInfo[fields][n].option # "OPTIONAL" } }

\* ... on a text with {} for a decode target that has no presence flag
DecodeEmptyObject ==
    /\ pc = "start"
    /\ \E t \in EmptyObjectTexts : Decode(t)
    /\ plain' = JsonObject(fields, src_struct, 0)
    /\ pc' = "emptyobj"
    /\ UNCHANGED <<fields, src_struct, len, buf, ret>>

\* the pairs of a sequence of pairs whose key is called name
RECURSIVE OnlyKey(_, _)
OnlyKey(pairs, name) ==
    IF pairs = << >> THEN << >>
    ELSE (IF IsPairOf(Head(pairs), name) THEN << Head(pairs) >> ELSE << >>)
         \o OnlyKey(Tail(pairs), name)

\* ... on the text that has the pair of one singular nested-message field of
\* the message and no other
DecodeSingularNested ==
    /\ pc = "start"
    /\ \E k \in 1..Len(FieldInfo[fields]) :
          /\ FieldInfo[fields][k].data_type = "MESSAGE"
          /\ FieldInfo[fields][k].option = "SINGULAR"
          /\ Decode(<<"{">> \o JoinWith(OnlyKey(JsonPairs(fields, src_struct, 0, 1),
                                                FieldInfo[fields][k].name), <<",">>)
                    \o <<"}">>)
    /\ plain' = JsonObject(fields, src_struct, 0)
    /\ pc' = "singular"
    /\ UNCHANGED <<fields, src_struct, len, buf, ret>>

\* ... on the text that gives a repeated field of the message the empty
\* array, into an image that holds the message
DecodeEmptyArray ==
    /\ pc = "start"
    /\ \E k \in 1..Len(FieldInfo[fields]) :
          /\ FieldInfo[fields][k].option = "REPEATED"
          /\ DecodeInto(<<"{">> \o KeyPrefix(FieldInfo[fields][k].name) \o <<"[", "]", "}">>,
                        src_struct)
    /\ plain' = JsonObject(fields, src_struct, 0)
    /\ pc' = "emptyarray"
    /\ UNCHANGED <<fields, src_struct, len, buf, ret>>

\* the orders the n pairs of an object can be written in
PairOrders(n) ==
    { f \in [1..n -> 1..n] : \A i, j \in 1..n : f[i] = f[j] => i = j }

\* ... on the well-formed text of the message with its pairs in any order
DecodePermuted ==
    /\ pc = "start"
    /\ \E pairs \in { JsonPairs(fields, src_struct, 0, 1) } :
          \E f \in PairOrders(Len(pairs)) :
              Decode(<<"{">> \o JoinWith([i \in 1..Len(pairs) |-> pairs[f[i]]], <<",">>)
                     \o <<"}">>)
    /\ plain' = JsonObject(fields, src_struct, 0)
    /\ pc' = "permuted"
    /\ UNCHANGED <<fields, src_struct, len, buf, ret>>

\* what stands between the braces or brackets of an empty object or array:
\* nothing, or one of the characters pbjson_find_first_char skips
Blanks == { << >>, <<" ">>, <<"\t">>, <<"\n">> }

\* ... on the text that gives an optional nested-message field an empty
\* object, or a repeated field an empty array, with a blank interior
DecodeBlankEmpty ==
    /\ pc = "start"
    /\ \E k \in 1..Len(FieldInfo[fields]), w \in Blanks :
          \/ /\ FieldInfo[fields][k].data_type = "MESSAGE"
             /\ FieldInfo[fields][k].option = "OPTIONAL"
             /\ Decode(<<"{">> \o KeyPrefix(FieldInfo[fields][k].name)
                       \o <<"{">> \o w \o <<"}", "}">>)
          \/ /\ FieldInfo[fields][k].option = "REPEATED"
             /\ Decode(<<"{">> \o KeyPrefix(FieldInfo[fields][k].name)
                       \o <<"[">> \o w \o <<"]", "}">>)
    /\ plain' = JsonObject(fields, src_struct, 0)
    /\ pc' = "blank"
    /\ UNCHANGED <<fields, src_struct, len, buf, ret>>

\* deepest nesting of the texts given to the pre-pass
MaxDepth == 66

\* how far in front of the terminator the helpers of the parser are called
Reach == 6

\* n times the character c
Repeat(c, n) == [i \in 1..n |-> c]

\* the closers of a sequence of openers, innermost first
ClosersOf(opens) ==
    [i \in 1..Len(opens) |-> IF opens[Len(opens) + 1 - i] = "{" THEN "}" ELSE "]"]

\* n openers: braces, brackets, or the two in turn
Openers(n) ==
    { Repeat("{", n), Repeat("[", n),
      [i \in 1..n |-> IF i % 2 = 1 THEN "{" ELSE "["] }

\* texts nested n deep: balanced, cut off behind the openers, and with one
\* closer more at either end
NestedTexts(n) ==
    UNION { { o \o ClosersOf(o), o, o \o ClosersOf(o) \o <<"}">>,
              <<"]">> \o o \o ClosersOf(o) } : o \in Openers(n) }

\* ... on a text of nested braces and brackets; the pre-pass does not look at
\* the descriptor, so one descriptor stands for all
DecodeNested ==
    /\ pc = "start"
    /\ fields = "Known"
    /\ \E n \in 0..MaxDepth : \E t \in NestedTexts(n) : Decode(t)
    /\ plain' = << >>
    /\ pc' = "nested"
    /\ UNCHANGED <<fields, src_struct, len, buf, ret>>

\* the texts made of text t in which a string literal is opened and never
\* closed: t with one more quote at any place, t without one of its quotes,
\* t with the start of a literal behind it
Unterminated(t) ==
    { InsertAt(t, i, Q) : i \in 1..(Len(t) + 1) }
    \cup { DropAt(t, i) : i \in { j \in 1..Len(t) : t[j] = Q } }
    \cup { t \o <<Q, "h", "i">>, t \o <<" ", Q, "}">> }

\* ... on a text with a string literal that is never closed
DecodeUnterminated ==
    /\ pc = "start"
    /\ \E t \in Unterminated(JsonObject(fields, src_struct, 0)) : Decode(t)
    /\ plain' = JsonObject(fields, src_struct, 0)
    /\ pc' = "unterminated"
    /\ UNCHANGED <<fields, src_struct, len, buf, ret>>

\* text t with the terminator written over its character at index i: the
\* rest of t stays in memory behind the terminator
CutAt(t, i) == [t EXCEPT ![i] = NUL]

\* ... on the well-formed text of the message, or on that text with a pair of
\* an unknown key in front, cut short by a terminator written into it at
\* any place
DecodeTruncated ==
    /\ pc = "start"
    /\ \E t \in { JsonObject(fields, src_struct, 0),
                  <<"{">> \o JoinWith(InsertAt(JsonPairs(fields, src_struct, 0, 1), 1,
                        <<Q>> \o UnknownKey \o <<Q, ":", " ", "[", "1", "]">>), <<",">>)
                  \o <<"}", " ">> } :
          \E i \in 1..Len(t) :
              /\ Decode(CutAt(t, i))
              /\ plain' = SubSeq(t, 1, i - 1)
    /\ pc' = "truncated"
    /\ UNCHANGED <<fields, src_struct, len, buf, ret>>

\* an image of n bytes that were never cleared
StaleImage(n) == [i \in 0..(n - 1) |-> 255]

\* ... on the text of one pair, of a string field with a literal of up to
\* item_size + 2 letters, into a message that was never cleared and has
\* Slack bytes of other memory behind it
DecodeString ==
    /\ pc = "start"
    /\ \E k \in 1..Len(FieldInfo[fields]) :
          /\ FieldInfo[fields][k].data_type = "STRING"
          /\ FieldInfo[fields][k].option = "SINGULAR"
          /\ \E n \in 0..(FieldInfo[fields][k].item_size + 2),
                w \in { << >>, <<" ">> } :
                /\ DecodeInto(<<"{">> \o KeyPrefix(FieldInfo[fields][k].name) \o w
                              \o <<Q>> \o LongLiteral(n) \o <<Q>> \o w \o <<"}">>,
                              StaleImage(StructSize[fields] + Slack))
                /\ plain' = LongLiteral(n)
    /\ pc' = "string"
    /\ UNCHANGED <<fields, src_struct, len, buf, ret>>

Next ==
    \/ Encode
    \/ DecodeEncoded
    \/ DecodeWellFormed
    \/ DecodeUnknown
    \/ DecodeLiteral
    \/ DecodeUnbalanced
    \/ DecodeLongString
    \/ DecodeEmptyOptional
    \/ DecodeEmptyObject
    \/ DecodeSingularNested
    \/ DecodeEmptyArray
    \/ DecodePermuted
    \/ DecodeBlankEmpty
    \/ DecodeNested
    \/ DecodeUnterminated
    \/ DecodeTruncated
    \/ DecodeString

Spec == Init /\ [][Next]_vars

(***************************************************************************)
(* Claims                                                                  *)
(***************************************************************************)

\* the text pbjson_encode reported, r bytes from the start of the buffer
Reported == TextOf(buf, ret)

\* the well-formed text of the encoded message
WellFormedText == JsonObject(fields, src_struct, 0)

\* C1: decoding the unknownField text of section 8 against the descriptor
\* that has only the singular bool 'known' returns 0, sets known to true and
\* writes nothing else: the value of the unmatched key, with its commas inside
\* nested braces and brackets, is skipped as one balanced unit.
C1_UnknownFieldSkipped ==
    (pc = "literal" /\ fields = "Known" /\ json = UnknownFieldText)
        => (derr = 0 /\ dst = WrByte(ZeroImage(StructSize["Known"]), 0, 1))

\* C2: a well-formed object with one pair of a key the descriptor does not
\* have and a scalar value, first, in the middle or last, decodes with result
\* 0 to the image that the same text without that pair decodes to.
C2_UnknownScalarIgnored ==
    (pc = "unknown" /\ pbjson_decode(plain, pbjson_msgdesc_t(fields),
                                     ZeroImage(StructSize[fields])).err = 0)
        => /\ derr = 0
           /\ dst = pbjson_decode(plain, pbjson_msgdesc_t(fields),
                                  ZeroImage(StructSize[fields])).mem

\* C3: pbjson_encode fails for every capacity below 3, and with capacity 3 and
\* a descriptor without fields it returns 2 and leaves "{}" and a NUL in the
\* buffer.
C3_CapacityThree ==
    pc = "encoded"
        => /\ len < 3 => ret < 0
           /\ (len = 3 /\ fields = "Empty")
                 => (ret = 2 /\ buf[0] = "{" /\ buf[1] = "}" /\ buf[2] = NUL)

\* C4: round trip: decoding the text of a successful pbjson_encode into a
\* zeroed image succeeds and gives back the encoded message, presence flags
\* and repeat counts included.
C4_RoundTrip ==
    (pc = "roundtrip" /\ FieldInfo[fields] # << >>) => (derr = 0 /\ dst = src_struct)

\* a quote at i that opens a key: letters up to a quote followed by a colon
IsKeyStart(t, i) ==
    /\ t[i] = Q
    /\ \E j \in (i + 1)..(Len(t) - 1) :
          /\ t[j] = Q
          /\ t[j + 1] = ":"
          /\ \A k \in (i + 1)..(j - 1) : IsLetter(t[k])

\* C5: in the text of a successful pbjson_encode a comma stands exactly
\* between two consecutive pairs (or array elements) and never directly after
\* an opening brace: every key but the first of its object follows a comma,
\* and the first emitted key follows the brace, also when the first declared
\* fields are absent.
C5_CommaOnlyBetweenPairs ==
    (pc = "encoded" /\ ret >= 0)
        => \A i \in 1..Len(Reported) :
              /\ Reported[i] = ","
                    => /\ i > 1 /\ i < Len(Reported)
                       /\ Reported[i - 1] \notin {"{", "[", ","}
                       /\ Reported[i + 1] \notin {"}", "]", ","}
              /\ IsKeyStart(Reported, i) => (i > 1 /\ Reported[i - 1] \in {"{", ","})

\* the braces and keys of a text, in order, each as a sequence of characters
RECURSIVE KeyTokens(_, _)
KeyTokens(t, i) ==
    IF i > Len(t) THEN << >>
    ELSE IF t[i] \in {"{", "}"} THEN << <<t[i]>> >> \o KeyTokens(t, i + 1)
    ELSE IF t[i] = Q
         THEN LET closes == { j \in (i + 1)..Len(t) : t[j] = Q }
                  j == IF closes = {} THEN Len(t)
                       ELSE CHOOSE k \in closes : \A l \in closes : k <= l
              IN  IF j < Len(t) /\ t[j + 1] = ":"
                  THEN << SubSeq(t, i + 1, j - 1) >> \o KeyTokens(t, j + 2)
                  ELSE KeyTokens(t, j + 1)
    ELSE KeyTokens(t, i + 1)

\* the braces and keys the descriptor and the presence flags call for: per
\* object the names of the fields that are not optional and absent, in
\* declaration order, each followed by the objects of its value
RECURSIVE ExpectedKeys(_, _, _)
RECURSIVE ExpectedKeysFrom(_, _, _, _)
RECURSIVE ExpectedElemKeys(_, _, _, _, _)

ExpectedElemKeys(key, img, off, i, n) ==
    IF i >= n THEN << >>
    ELSE ExpectedKeys(key.submsg, img, off)
         \o ExpectedElemKeys(key, img, off + key.item_size, i + 1, n)

ExpectedKeysFrom(m, img, base, i) ==
    IF i > Len(FieldInfo[m]) THEN << >>
    ELSE LET key == FieldInfo[m][i]
             absent == key.option = "OPTIONAL" /\ RdByte(img, base + key.count_offset) = 0
             inner == IF key.data_type # "MESSAGE" THEN << >>
                      ELSE IF key.option = "REPEATED"
                           THEN ExpectedElemKeys(key, img, base + key.data_offset, 0,
                                    RdUnsigned(img, base + key.count_offset, 4))
                      ELSE ExpectedKeys(key.submsg, img, base + key.data_offset)
         IN  (IF absent THEN << >> ELSE << key.name >> \o inner)
             \o ExpectedKeysFrom(m, img, base, i + 1)

ExpectedKeys(m, img, base) ==
    << <<"{">> >> \o ExpectedKeysFrom(m, img, base, 1) \o << <<"}">> >>

\* C6: the keys of every object of a successfully encoded text are exactly
\* the names of the fields that are not optional with a false presence flag,
\* in declaration order: an absent field gives no key, every other field
\* gives its key once, and no other key appears.
C6_KeysInDescriptorOrder ==
    (pc = "encoded" /\ ret >= 0)
        => KeyTokens(Reported, 1) = ExpectedKeys(fields, src_struct, 0)

\* an encode of a Holder whose optional x is absent and whose z.b is present
C6_Witness ==
    /\ pc = "encoded" /\ ret >= 0
    /\ fields = "Holder" /\ src_struct[12] = 0 /\ src_struct[8] = 1

\* text t has a key called name
HasKey(t, name) ==
    \E i \in 1..Len(t) :
        /\ t[i] = Q
        /\ i + Len(name) + 2 <= Len(t)
        /\ SubSeq(t, i + 1, i + Len(name)) = name
        /\ t[i + Len(name) + 1] = Q
        /\ t[i + Len(name) + 2] = ":"

\* C7: after a successful decode into a cleared image, an optional field
\* whose name is no key of the text has its presence flag still false and its
\* value bytes untouched, whatever other keys the text has.
C7_AbsentOptionalUntouched ==
    (pc \in {"wellformed", "roundtrip"} /\ derr = 0)
        => \A i \in 1..Len(FieldInfo[fields]) :
              LET key == FieldInfo[fields][i]
              IN  (key.option = "OPTIONAL" /\ ~HasKey(json, key.name))
                     => /\ dst[key.count_offset] = 0
                        /\ \A o \in key.data_offset..(key.data_offset + key.item_size - 1) :
                              dst[o] = 0

\* C8: with len >= 3 every byte pbjson_encode writes, the final NUL included,
\* is inside the len bytes of the buffer, on success and on failure.
C8_WritesInsideBuffer ==
    (pc = "encoded" /\ len >= 3)
        => \A i \in DOMAIN buf : i >= len => buf[i] = UNSET

\* open braces and brackets minus closed ones among the first i characters
RECURSIVE Depth(_, _)
Depth(t, i) ==
    IF i = 0 THEN 0
    ELSE Depth(t, i - 1) + (IF t[i] \in {"{", "["} THEN 1
                            ELSE IF t[i] \in {"}", "]"} THEN -1 ELSE 0)

\* what pbjson_encode leaves in a buffer that is large enough for any output
Untruncated ==
    LET n == 2 * Len(WellFormedText) + 2
    IN  BufferText(pbjson_encode(CallerMem(n), n, pbjson_msgdesc_t(fields), src_struct).mem, 0)

C10_TruncationFails ==
    (pc = "encoded" /\ Len(WellFormedText) + 1 > len) => ret < 0

\* an encode into a buffer that has room for the text but not for the
\* terminator, the value written last being a number
C10_Witness ==
    /\ pc = "encoded" /\ len >= 3
    /\ fields = "Rep" /\ src_struct[0] = 2
    /\ Len(WellFormedText) = len

\* reading character c with the openers not yet closed on the stack: ok is
\* false once a closer has met no opener or one of the other kind
MatchStep(st, c) ==
    IF st.in_string THEN [st EXCEPT !.in_string = (c # Q)]
    ELSE IF c \in {"{", "["} THEN [st EXCEPT !.stack = <<c>> \o st.stack]
    ELSE IF c \in {"}", "]"}
         THEN IF st.stack # << >> /\ Head(st.stack) = (IF c = "}" THEN "{" ELSE "[")
              THEN [st EXCEPT !.stack = Tail(st.stack)]
              ELSE [st EXCEPT !.ok = FALSE]
    ELSE [st EXCEPT !.in_string = (c = Q)]

\* the characters lo to hi of t read one after the other
RECURSIVE Matched(_, _, _, _)
Matched(t, lo, hi, st) ==
    IF ~st.ok \/ hi < lo THEN st
    ELSE IF hi = lo THEN MatchStep(st, t[lo])
    ELSE Matched(t, (lo + hi) \div 2 + 1, hi, Matched(t, lo, (lo + hi) \div 2, st))

\* the braces and brackets outside the string literals of t are balanced and
\* matched
Balanced(t) ==
    Then(Matched(t, 1, Len(t), [stack |-> << >>, in_string |-> FALSE, ok |-> TRUE]),
         LAMBDA st : st.ok /\ st.stack = << >>)

\* C11: pbjson_decode returns a negative result for the empty text and for
\* every text whose braces and brackets outside string literals are not
\* balanced and matched (a closer missing, of the wrong kind, or without
\* opener), whatever the descriptor; for the unbalanced texts no byte of the
\* message image is written.
C11_UnbalancedRejected ==
    pc = "unbalanced"
        => /\ json = << >> \/ ~Balanced(json)
           /\ derr < 0
           /\ ~Balanced(json) => /\ pbjson_check_brace(json) < 0
                                 /\ dst = ZeroImage(StructSize[fields])

\* a text with a value before its missing closer was decoded
C11_Witness ==
    /\ pc = "unbalanced" /\ fields = "Known"
    /\ json = <<"{", Q, "k","n","o","w","n", Q, ":", "t","r","u","e">>
    /\ derr < 0

\* the bytes of a string slot hold the literal lit cut to the capacity of the
\* slot: its first item_size - 1 characters and a terminator, or its first
\* item_size characters
TruncatedTo(img, key, lit) ==
    /\ \A i \in 0..(key.item_size - 2) : img[key.data_offset + i] = Ord(lit[i + 1])
    /\ img[key.data_offset + key.item_size - 1] \in {0, Ord(lit[key.item_size])}

\* C12: a string literal of item_size characters or more does not make
\* pbjson_decode fail: the call returns 0, the slot holds the literal cut to
\* the capacity of the field, and the other pairs of the text, before and
\* behind it, are decoded.
C12_LongStringTruncated ==
    pc = "longstring"
        => /\ derr = 0
           /\ \A k \in 1..Len(FieldInfo[fields]) :
                 LET key == FieldInfo[fields][k]
                 IN  IF key.data_type = "STRING"
                     THEN TruncatedTo(dst, key, plain)
                     ELSE \A o \in key.data_offset..(key.data_offset + key.item_size - 1) :
                             dst[o] = src_struct[o]

\* text sub occurs in text t
Contains(t, sub) ==
    \E i \in 1..(Len(t) - Len(sub) + 1) : SubSeq(t, i, i + Len(sub) - 1) = sub

\* the image pbjson_decode was given in a state of DecodeEmptyOptional
GivenImage == IF pc = "emptyopt_stale" THEN src_struct ELSE ZeroImage(StructSize[fields])

\* C13: when the value of the key of an optional nested-message field is {},
\* pbjson_decode sets the presence flag of the field to false, writes nothing
\* into the slot of the submessage and goes on with the next pair to a
\* successful end, as if the pair were not there; when the value is a
\* non-empty object the flag is true before the fields of the submessage are
\* parsed, so also when that parse fails.
C13_EmptyOptionalObject ==
    pc \in {"emptyopt", "emptyopt_stale"}
        => \A k \in 1..Len(FieldInfo[fields]) :
              LET key == FieldInfo[fields][k]
              IN  (key.data_type = "MESSAGE" /\ key.option = "OPTIONAL") =>
                  /\ Contains(json, KeyPrefix(key.name) \o <<"{", "}">>)
                        => /\ derr = 0
                           /\ dst[key.count_offset] = 0
                           /\ \A o \in key.data_offset..(key.data_offset + key.item_size - 1) :
                                 dst[o] = GivenImage[o]
                           /\ pbjson_decode(plain, pbjson_msgdesc_t(fields), GivenImage).err = 0
                                 => [dst EXCEPT ![key.count_offset] = GivenImage[key.count_offset]]
                                    = pbjson_decode(plain, pbjson_msgdesc_t(fields),
                                                    GivenImage).mem
                  /\ Contains(json, KeyPrefix(key.name) \o BrokenObject)
                        => derr < 0 /\ dst[key.count_offset] = 1

\* {} was decoded for an optional nested message whose flag was true, with a
\* pair behind it
C13_Witness ==
    /\ pc = "emptyopt_stale" /\ fields = "Outer" /\ derr = 0
    /\ src_struct[0] = 1 /\ dst[0] = 0
    /\ Contains(json, <<"{", Q, "x", Q, ":", "{", "}", ",">>)

\* a broken object was decoded for an optional nested message whose flag
\* was false
C13_WitnessNonEmpty ==
    /\ pc = "emptyopt" /\ fields = "Holder" /\ derr < 0
    /\ dst[12] = 1

\* C14: an empty object for a decode target without presence flag is an
\* error: pbjson_decode returns a negative result when the whole text is {},
\* when {} is an element of a repeated nested-message array and when {} is
\* the value of a singular nested-message field.
C14_EmptyObjectIsError ==
    pc = "emptyobj" => derr < 0

\* C15: decoding the key of a singular nested-message field writes only
\* inside the slot of that submessage, data_offset to data_offset +
\* item_size - 1: no other byte of the owning image changes, the byte at
\* offset 0 (the unused auxiliary offset of the field) included.
C15_SingularNestedFrame ==
    pc = "singular"
        => \A k \in 1..Len(FieldInfo[fields]) :
              LET key == FieldInfo[fields][k]
              IN  Contains(json, <<"{">> \o KeyPrefix(key.name))
                     => \A o \in DOMAIN dst :
                           o \notin key.data_offset..(key.data_offset + key.item_size - 1)
                              => dst[o] = 0

\* slot i of the array of a repeated field holds in image a what it holds in
\* image b
SameElement(key, i, a, b) ==
    \A o \in (key.data_offset + i * key.item_size)
             ..(key.data_offset + (i + 1) * key.item_size - 1) : a[o] = b[o]

\* C16: for the key of a repeated field with a well-formed array of n
\* elements pbjson_decode stores element i in the slot at data_offset +
\* i * item_size for every i < n and writes n into the count slot; for the
\* empty array it writes count 0 and stores no element: [12, 14] gives count
\* 2 with the values 12 and 14, [] gives count 0.
C16_RepeatedArray ==
    /\ (pc = "wellformed" /\ fields \in {"Rep", "RepMsg"})
          => \A k \in 1..Len(FieldInfo[fields]) :
                LET key == FieldInfo[fields][k]
                    n == RdUnsigned(src_struct, key.count_offset, 4)
                IN  /\ derr = 0
                    /\ RdUnsigned(dst, key.count_offset, 4) = n
                    /\ \A i \in 0..(n - 1) : SameElement(key, i, dst, src_struct)
                    /\ \A i \in n..(ArrayLen(fields, key) - 1) :
                          SameElement(key, i, dst, ZeroImage(StructSize[fields]))
    /\ (pc = "literal" /\ json = TwoElementText)
          => /\ derr = 0
             /\ RdUnsigned(dst, 0, 4) = 2
             /\ RdSigned(dst, 4, 4) = 12
             /\ RdSigned(dst, 8, 4) = 14
    /\ (pc = "literal" /\ json = EmptyArrayText)
          => derr = 0 /\ dst = ZeroImage(StructSize[fields])
    /\ pc = "emptyarray"
          => \A k \in 1..Len(FieldInfo[fields]) :
                LET key == FieldInfo[fields][k]
                IN  /\ derr = 0
                    /\ RdUnsigned(dst, key.count_offset, 4) = 0
                    /\ \A i \in 0..(ArrayLen(fields, key) - 1) :
                          SameElement(key, i, dst, src_struct)

\* an array of two nested messages was decoded
C16_Witness ==
    /\ pc = "wellformed" /\ fields = "RepMsg" /\ derr = 0
    /\ RdUnsigned(dst, 0, 4) = 2 /\ RdSigned(dst, 12, 4) = -12

\* C17: for an object with distinct keys pbjson_decode gives the same return
\* value and the same final image for every order of the pairs, also when
\* the message has singular nested-message fields next to optional or scalar
\* fields.
C17_KeyOrderIrrelevant ==
    pc = "permuted"
        => /\ derr = pbjson_decode(plain, pbjson_msgdesc_t(fields),
                                   ZeroImage(StructSize[fields])).err
           /\ dst = pbjson_decode(plain, pbjson_msgdesc_t(fields),
                                  ZeroImage(StructSize[fields])).mem

\* C18: an empty object or array with only white space inside is taken as
\* empty whichever of the skipped characters (space, tab, newline) it is: an
\* optional submessage value of '{', tab or newline, '}' clears the presence
\* flag and succeeds, a repeated value of '[', tab or newline, ']' gives
\* count 0 and succeeds, as with nothing or with spaces inside.
C18_BlankInterior ==
    pc = "blank" => derr = 0 /\ dst = ZeroImage(StructSize[fields])

\* the nesting depth behind the first i characters of text t
DepthAt(t, i) ==
    Cardinality({ j \in 1..i : t[j] \in {"{", "["} })
    - Cardinality({ j \in 1..i : t[j] \in {"}", "]"} })

\* the deepest nesting of braces and brackets in text t
Deepest(t) ==
    IF t = << >> THEN 0
    ELSE CHOOSE d \in { DepthAt(t, i) : i \in 1..Len(t) } \cup {0} :
            \A i \in 1..Len(t) : DepthAt(t, i) <= d

\* C20: in the pre-pass the index of the nesting stack stays in 0..63 for
\* every text, so the 64-entry stack is never read or written out of bounds,
\* neither on a closer without opener nor on deep nesting; a text whose
\* nesting reaches 64 is rejected, and a balanced text of depth at most 63
\* passes the pre-pass.
C20_StackInBounds ==
    pc = "nested"
        => /\ pbjson_check_brace_run(json).used \subseteq 0..63
           /\ Deepest(json) >= 64 => pbjson_check_brace(json) < 0 /\ derr < 0
           /\ (Balanced(json) /\ Deepest(json) <= 63) => pbjson_check_brace(json) = 0

\* a balanced text nested 63 deep passed the pre-pass
C20_Witness ==
    /\ pc = "nested" /\ Balanced(json) /\ Deepest(json) = 63
    /\ pbjson_check_brace(json) = 0

\* the values of pc behind a call of pbjson_decode
Decoded ==
    {"roundtrip", "wellformed", "unknown", "literal", "unbalanced", "longstring",
     "emptyopt", "emptyopt_stale", "emptyobj", "singular", "emptyarray", "permuted",
     "blank", "nested", "unterminated", "truncated"}

\* the image the call was given
DecodedInto ==
    IF pc \in {"emptyopt_stale", "emptyarray"} THEN src_struct
    ELSE ZeroImage(StructSize[fields])

\* the steps of the call, in the order of their returns
DecodeLog == pbjson_decode(json, pbjson_msgdesc_t(fields), DecodedInto).log

\* fail-fast for a log of steps that ends in the return of pbjson_decode
FailFast(log) ==
    /\ log[Len(log)].step = "pbjson_decode"
    /\ log[Len(log)].err = derr /\ log[Len(log)].mem = dst
    /\ \A i, j \in 1..Len(log) :
          (i < j /\ log[i].err # 0)
             => /\ log[j].err = log[i].err
                /\ log[j].s = log[i].s
                /\ log[j].mem = log[i].mem
    /\ (\E i \in 1..Len(log) : log[i].err # 0) => derr < 0
    /\ derr = 0 => \A i \in 1..Len(log) : log[i].err = 0

\* C19: pbjson_decode is fail-fast: once a step (pre-pass, key parse,
\* separator check, value parse, array or nested-object parse) has reported
\* a failure, no later step writes to the image or moves the cursor, every
\* enclosing level returns that failure unchanged and pbjson_decode returns
\* a negative result; it returns 0 only when no step failed.
C19_FailFast ==
    pc \in Decoded => FailFast(DecodeLog)

\* a failure inside an array inside an object, behind an element that was
\* stored, went up through four returns
C19_Witness ==
    /\ pc = "emptyobj" /\ fields = "RepMsg" /\ derr < 0
    /\ dst # ZeroImage(StructSize[fields])
    /\ Cardinality({ i \in 1..Len(DecodeLog) : DecodeLog[i].err # 0 }) >= 4

\* the text ends inside a string literal: a quote opens a literal, the next
\* quote closes it, and the number of quotes is odd
OpenAtEnd(t) == ~OutsideString(t, Len(t) + 1)

\* C21: a text with a string literal that is opened by a quote and never
\* closed before the terminator, anywhere in the text, behind the closing
\* brace of the top-level object included, makes pbjson_decode return a
\* negative int.
C21_UnterminatedRejected ==
    pc = "unterminated" /\ OpenAtEnd(json) => derr < 0

\* a string field, and an image that holds its slot
StringKey == FieldInfo["OptFirst"][3]

\* what the helpers of the parser return when they are called with the
\* cursor at index p of text t
HelperResults(t, p) ==
    << pbjson_find_first_char(t, p),
       pbjson_jumpto_first_char(t, p, Q),
       pbjson_jumpto_first_char(t, p, ":"),
       pbjson_check_obj_empty(t, p, "}"),
       pbjson_check_obj_empty(t, p, "]"),
       SkipKey(t, p),
       pbjson_discard_value(t, p),
       pbjson_get_string(t, p, StringKey, ZeroImage(StructSize["OptFirst"]),
                         StringKey.data_offset),
       pbjson_get_bool(t, p, ZeroImage(4), 0),
       pbjson_get_number(t, p, "INT32", ZeroImage(4), 0),
       pbjson_get_enum(t, p, StringKey, ZeroImage(4), 0),
       pbjson_check_key(t, p, UnknownKey) >>
    \o [k \in 1..Len(FieldInfo[fields]) |-> pbjson_check_key(t, p, FieldInfo[fields][k].name)]

\* every helper called on text t with the cursor at p leaves it at p or
\* moves it forward, at most up to the terminator, leaves it alone on the
\* terminator, and returns what it returns on text u
HelpersStop(t, p, u) ==
    \A rs \in { HelperResults(t, p) } :
        /\ rs = HelperResults(u, p)
        /\ \A k \in 1..Len(rs) :
              /\ rs[k].s >= p /\ rs[k].s <= Terminator(t)
              /\ p = Terminator(t) => rs[k].s = p

\* the cursor positions from which the helpers are called: the terminator
\* and the Reach characters in front of it
CursorsNear(t) == { p \in 0..Terminator(t) : p >= Terminator(t) - Reach }

\* the cursor at the returns of the steps of a call on text t never goes
\* back and never passes the terminator
CursorForward(t, log) ==
    \A i \in 1..Len(log) :
        /\ log[i].s >= 0 /\ log[i].s <= Terminator(t)
        /\ i > 1 => log[i].s >= log[i - 1].s

\* C22: during pbjson_decode the cursor only moves forward and never passes
\* the terminator of the text: no helper (white-space skip, key match,
\* unknown-key skip, value discard, string, bool and number parse,
\* empty-object check) moves the cursor when it stands on the terminator,
\* and no byte behind the terminator is read: what stands there changes
\* neither the steps of the call nor the result of any helper.
C22_CursorStopsAtTerminator ==
    /\ pc \in Decoded => CursorForward(json, DecodeLog)
    /\ pc = "truncated"
          => /\ Terminator(json) = Len(plain)
             /\ pbjson_decode(plain, pbjson_msgdesc_t(fields), DecodedInto)
                   = pbjson_decode(json, pbjson_msgdesc_t(fields), DecodedInto)
             /\ \A p \in CursorsNear(json) : HelpersStop(json, p, plain)

\* a call went through the parser up to the terminator that was written
\* into the text, with the rest of the text behind it
C22_Witness ==
    /\ pc = "truncated" /\ Len(json) > Len(plain) + 1
    /\ pbjson_check_brace(json) = 0
    /\ DecodeLog[Len(DecodeLog)].s = Terminator(json)

\* the string fields of the message
StringFields ==
    { k \in 1..Len(FieldInfo[fields]) : FieldInfo[fields][k].data_type = "STRING" }

\* the slot of field key holds the first n characters of literal lit
HoldsChars(mem, key, lit, n) ==
    \A i \in 0..(n - 1) : mem[key.data_offset + i] = Ord(lit[i + 1])

\* C23: decoding a string literal into a string field never writes more than
\* item_size bytes into the slot of the field, whatever the length of the
\* literal: no byte outside the slot changes.  When the literal is shorter
\* than item_size the slot holds its characters followed by a NUL; a literal
\* of item_size characters or more leaves item_size characters and no NUL in
\* the slot.
C23_StringInSlot ==
    pc = "string"
        => \A k \in StringFields :
              \A key \in { FieldInfo[fields][k] } :
                 /\ \A off \in DOMAIN dst :
                       (off < key.data_offset \/ off >= key.data_offset + key.item_size)
                          => dst[off] = 255
                 /\ Len(plain) < key.item_size
                       => /\ HoldsChars(dst, key, plain, Len(plain))
                          /\ dst[key.data_offset + Len(plain)] = 0
                          /\ \A off \in (key.data_offset + Len(plain) + 1)
                                         ..(key.data_offset + key.item_size - 1) :
                                dst[off] = 255
                 /\ Len(plain) >= key.item_size
                       => /\ HoldsChars(dst, key, plain, key.item_size)
                          /\ \A i \in 0..(key.item_size - 1) :
                                dst[key.data_offset + i] # 0

\* a literal of more than item_size letters filled the slot and left the
\* byte behind it alone
C23_Witness ==
    /\ pc = "string"
    /\ \E k \in StringFields :
          /\ Len(plain) > FieldInfo[fields][k].item_size
          /\ HoldsChars(dst, FieldInfo[fields][k], plain, FieldInfo[fields][k].item_size)
          /\ dst[FieldInfo[fields][k].data_offset + FieldInfo[fields][k].item_size] = 255

\* a literal of item_size - 1 letters got its NUL in the last byte of the slot
C23_WitnessShort ==
    /\ pc = "string"
    /\ \E k \in StringFields :
          /\ Len(plain) = FieldInfo[fields][k].item_size - 1
          /\ dst[FieldInfo[fields][k].data_offset + FieldInfo[fields][k].item_size - 1] = 0
          /\ derr = 0

====
